---- MODULE Spec2Model ----
(***************************************************************************)
(* Peer pool manager (ClientManager.Manager) and the connection /          *)
(* reconnection state machine of Client.Client.  A worker thread drives a  *)
(* Client through send, receive and reconnect; the application and the     *)
(* other clients act on the shared Manager through its public methods.     *)
(***************************************************************************)
EXTENDS Integers, Sequences, FiniteSets, TLC

\* ---------------------------------------------------------------- bounds
\* longest pool the external application builds with add_peer
MaxPool == 3
\* largest max_retries a Client is constructed with
MaxRetries == 3
\* the messages written to a p2p link
MaxSent == 2
\* longest pool two threads of one Client start with
MaxSharedPool == 1
\* largest max_retries of a Client two threads share
MaxSharedRetries == 1

Threads == {"t1", "t2"}
Clients == {"c1", "c2"}
\* the (host_ip, host_port) tuples the application may add to the pool
Addrs == {<<"A", 1>>, <<"B", 2>>}
\* the (host_ip, host_port) every Client is constructed with
InitialPeer == <<"S", 0>>
\* Python's None
None == "None"
\* what a top-level call can hand back to its caller
JSONDecodeError == "JSONDecodeError"
Message == "Message"

VARIABLES
    peers,           \* Manager.peers: list of (host_ip, host_port)
    active_clients,  \* Manager.active_clients: dict client_id -> peer
    host,            \* Client.host_ip, Client.host_port
    connected,       \* Client.connected
    client_socket,   \* Client.client_socket: None, an open or a closed socket
    lock,            \* Client.lock: None or the thread holding it
    max_retries,     \* Client.max_retries
    owner,           \* the Client each worker thread drives (None: no thread)
    pc,              \* where each thread is ("off": not started)
    op,              \* the Client method the thread called last
    site,            \* the call site of the running reconnect()
    retries,         \* the local `retries` of the running reconnect()
    ret,             \* what the last finished call returned
    rc_result,       \* what the last finished reconnect() returned
    attempts,        \* history: connect() calls of the running reconnect()
    requests,        \* history: get_new_peer calls of the running reconnect()
    denials,         \* history: of those, the ones answered None
    notified,        \* history: handle_client_failure calls of the reconnect()
    untried,         \* history: the peer the reconnect() got from the manager
                     \* and has not tried to connect to (None: no such peer)
    io,              \* history: the socket I/O of the running send/receive
    sock_use,        \* history: what the last call did to client_socket
    peer_type,       \* p2p: the peer_type of the receiving peer
    reader,          \* p2p: the function that reads the link
    wire,            \* p2p: the bytes written to the link and not read yet
    buffer,          \* p2p: handle_peer_connection's `buffer`
    running,         \* p2p: handle_peer_connection's loop has not ended
    sent,            \* history: the messages written to the link, as bytes too
    log,             \* history: handle_json_rpc's calls and what each wrote
    returned,        \* history: what Client.receive returned or raised
    mlock,           \* Manager.lock: None or the thread holding it
    mpc,             \* where each thread is inside a Manager method
    mcall,           \* the Manager method a thread called, and its argument
    new_peer,        \* the local `new_peer` of a running get_new_peer
    mret,            \* what the thread's last Manager call returned
    lin,             \* history: the Manager had each call run alone, in the
                     \* order in which the calls took the lock
    lin_ret          \* history: what the thread's call returns in that order

mgrVars == <<peers, active_clients>>
sockVars == <<connected, client_socket, sock_use>>
cfgVars == <<max_retries, owner>>
histVars == <<attempts, requests, denials, notified, untried>>
clientVars == <<host, connected, client_socket, lock, max_retries, owner, pc,
                op, site, retries, ret, rc_result, attempts, requests,
                denials, notified, untried, io, sock_use>>
wireVars == <<peer_type, reader, wire, buffer, running, sent, log, returned>>
callVars == <<mlock, mpc, mcall, new_peer, mret, lin, lin_ret>>
vars == <<mgrVars, clientVars, wireVars, callVars>>

\* ------------------------------------------------------------- Manager
RECURSIVE list_remove(_, _)
\* list.remove(x): drops the first element equal to x
list_remove(s, x) ==
    IF s = <<>> THEN <<>>
    ELSE IF Head(s) = x THEN Tail(s)
    ELSE <<Head(s)>> \o list_remove(Tail(s), x)

Range(s) == {s[i] : i \in DOMAIN s}

\* dict[key] = value
dict_set(d, k, v) == [x \in DOMAIN d \cup {k} |-> IF x = k THEN v ELSE d[x]]
\* del dict[key]
dict_del(d, k) == [x \in DOMAIN d \ {k} |-> d[x]]

\* the Manager object
Manager == [peers |-> peers, active_clients |-> active_clients]

\* Manager.add_peer: the Manager after the call
add_peer(self, host_ip_port) ==
    [self EXCEPT !.peers = Append(@, host_ip_port)]

\* Manager.remove_peer: the Manager after the call
remove_peer(self, host_ip_port) ==
    IF host_ip_port \in Range(self.peers)
    THEN [self EXCEPT !.peers = list_remove(@, host_ip_port)]
    ELSE self

\* get_new_peer with `self.peers.pop()` for `self.peers.pop(0)`: the newest peer
get_new_peer_pop_last(self, client_id) ==
    IF self.peers # <<>>
    THEN [self |-> [peers |-> SubSeq(self.peers, 1, Len(self.peers) - 1),
                    active_clients |-> dict_set(self.active_clients, client_id,
                                                self.peers[Len(self.peers)])],
          result |-> self.peers[Len(self.peers)]]
    ELSE [self |-> self, result |-> None]

\* Manager.get_new_peer: the Manager after the call, and what the call returns
get_new_peer(self, client_id) ==
    IF self.peers # <<>>
    THEN [self |-> [peers |-> Tail(self.peers),
                    active_clients |-> dict_set(self.active_clients, client_id,
                                                Head(self.peers))],
          result |-> Head(self.peers)]
    ELSE [self |-> self, result |-> None]

\* handle_client_failure without its `del self.active_clients[client_id]`
handle_client_failure_no_del(self, client_id) == self

\* Manager.handle_client_failure: the Manager after the call
handle_client_failure(self, client_id) ==
    IF client_id \in DOMAIN self.active_clients
    THEN [self EXCEPT !.active_clients = dict_del(@, client_id)]
    ELSE self

\* the Manager object becomes m
SetManager(m) ==
    /\ peers' = m.peers
    /\ active_clients' = m.active_clients

\* -------------------------------------------------------------- Client
\* the socket part of a Client
Sock(c) ==
    [client_socket |-> client_socket[c], connected |-> connected[c],
     sock_use |-> sock_use[c]]

\* close without its `finally`: `self.connected = False` only after a
\* client_socket.close() that did not raise
close_no_finally(s, err) ==
    IF s.client_socket # None
    THEN [s EXCEPT !.client_socket = "closed",
                   !.connected = IF err THEN s.connected ELSE FALSE,
                   !.sock_use = IF s.client_socket = "closed"
                               THEN "closed_again" ELSE "closed"]
    ELSE s

\* Client.close on the socket part s; err tells whether client_socket.close()
\* raised socket.error (caught and printed, the `finally` runs either way)
close(s, err) ==
    IF s.client_socket # None
    THEN [s EXCEPT !.client_socket = "closed",
                   !.connected = FALSE,
                   !.sock_use = IF s.client_socket = "closed"
                               THEN "closed_again" ELSE "closed"]
    ELSE s

\* Client.connect (with _initialize_socket) on the socket part s; ok tells
\* whether socket.connect succeeded
connect(s, ok) ==
    [s EXCEPT !.client_socket = "open",
              !.connected = ok,
              !.sock_use = IF s.client_socket = "open"
                          THEN "replaced_unclosed" ELSE "opened"]

SetSock(c, s) ==
    /\ client_socket' = [client_socket EXCEPT ![c] = s.client_socket]
    /\ connected' = [connected EXCEPT ![c] = s.connected]
    /\ sock_use' = [sock_use EXCEPT ![c] = s.sock_use]

\* entering reconnect() from `from`: retries = 0
EnterReconnect(t, from) ==
    /\ pc' = [pc EXCEPT ![t] = "rc_loop"]
    /\ site' = [site EXCEPT ![t] = from]
    /\ retries' = [retries EXCEPT ![t] = 0]
    /\ rc_result' = [rc_result EXCEPT ![t] = "NA"]
    /\ attempts' = [attempts EXCEPT ![t] = 0]
    /\ requests' = [requests EXCEPT ![t] = 0]
    /\ denials' = [denials EXCEPT ![t] = 0]
    /\ notified' = [notified EXCEPT ![t] = 0]
    /\ untried' = [untried EXCEPT ![t] = None]

\* a top-level call returns v to the application
Return(t, v) ==
    /\ pc' = [pc EXCEPT ![t] = "idle"]
    /\ ret' = [ret EXCEPT ![t] = v]

\* ---------------------------------------------------------- p2p link
\* the delimiter '\n'
NL == "\n"
\* the size handed to recv()
RecvSize == 1024
\* the JSON-RPC error codes
InvalidRequest == -32600
MethodNotFound == -32601

\* a JSON-RPC id: an integer, a string or null
IntId(n) == [type |-> "int", n |-> n]
StrId == [type |-> "str", n |-> 0]
NullId == [type |-> "null", n |-> 0]

\* the dict send_hello_world builds
hello_world(request_id) ==
    [jsonrpc |-> "2.0", method |-> "echo", params |-> "hello world",
     id |-> request_id]

\* the JSON objects a peer writes, by the byte that stands for their body
Docs ==
    [hello1 |-> hello_world(IntId(1)),
     echo7 |-> [jsonrpc |-> "2.0", method |-> "echo", params |-> "hi",
                id |-> IntId(7)],
     echoA |-> [jsonrpc |-> "2.0", method |-> "echo", params |-> "hi",
                id |-> StrId],
     foo7 |-> [jsonrpc |-> "2.0", method |-> "foo", params |-> "hi",
               id |-> IntId(7)],
     result1 |-> [jsonrpc |-> "2.0", id |-> IntId(1),
                  result |-> "hello world"],
     result9 |-> [jsonrpc |-> "2.0", id |-> IntId(9), result |-> "hi"],
     resultNoId |-> [jsonrpc |-> "2.0", result |-> "hi"],
     empty |-> [jsonrpc |-> "2.0"]]
DocNames == DOMAIN Docs
\* a byte no JSON text is made of
Garbage == "x"

\* json.dumps of the object named d: its first byte, its body, its last byte
json_dumps(d) == <<"{", d, "}">>

RECURSIVE strip(_)
\* a text without the whitespace around it
strip(text) ==
    IF text = <<>> THEN text
    ELSE IF Head(text) = NL THEN strip(Tail(text))
    ELSE IF text[Len(text)] = NL THEN strip(SubSeq(text, 1, Len(text) - 1))
    ELSE text

\* json.loads(text) does not raise
is_json(text) ==
    LET t == strip(text)
    IN  Len(t) = 3 /\ t[1] = "{" /\ t[3] = "}" /\ t[2] \in DocNames
\* json.loads(text), when it does not raise
json_loads_text(text) == Docs[strip(text)[2]]

\* the index of the first '\n' in a text, 0 if there is none
find_newline(text) ==
    IF \E i \in DOMAIN text : text[i] = NL
    THEN CHOOSE i \in DOMAIN text :
            text[i] = NL /\ \A j \in 1..(i - 1) : text[j] # NL
    ELSE 0

\* the dict handle_json_rpc writes from its `except`
error_response ==
    [jsonrpc |-> "2.0",
     error |-> [code |-> InvalidRequest, message |-> "Invalid Request"],
     id |-> NullId]

\* `request_id + 1` does not raise TypeError
can_add_one(id) == id.type = "int"
add_one(id) == IntId(id.n + 1)

\* handle_json_rpc on the line `data`: the branch taken and the messages
\* written to peer_socket, in order (each is written with a '\n' after it)
handle_json_rpc(data, ptype) ==
    IF ~is_json(data)
    THEN [branch |-> "except", written |-> <<error_response>>]
    ELSE
        LET message == json_loads_text(data)
            has(k) == k \in DOMAIN message
        IN  IF has("method") /\ has("params") /\ has("id")
            THEN
                    IF message.method = "echo"
                    THEN
                        LET echoed ==
                                [jsonrpc |-> "2.0", id |-> message.id,
                                 result |-> message.params]
                        IN  IF ptype = "Server"
                            THEN IF can_add_one(message.id)
                                 THEN [branch |-> "request",
                                       written |->
                                         <<echoed,
                                           hello_world(add_one(message.id))>>]
                                 ELSE [branch |-> "except",
                                       written |-> <<echoed, error_response>>]
                            ELSE [branch |-> "request", written |-> <<echoed>>]
                    ELSE [branch |-> "request",
                          written |->
                            <<[jsonrpc |-> "2.0", id |-> message.id,
                               error |-> [code |-> MethodNotFound,
                                          message |-> "Method not found"]]>>]
            ELSE IF has("result") \/ has("error")
            THEN
                IF ptype = "Client"
                THEN IF has("id") /\ can_add_one(message.id)
                     THEN [branch |-> "response",
                           written |-> <<hello_world(add_one(message.id))>>]
                     ELSE [branch |-> "except",
                           written |-> <<error_response>>]
                ELSE [branch |-> "response", written |-> <<>>]
            ELSE [branch |-> "except", written |-> <<error_response>>]

RECURSIVE split_lines(_)
\* handle_peer_connection's inner loop on the buffer b: the lines it hands to
\* handle_json_rpc, in order, and the buffer it is left with
split_lines(b) ==
    LET i == find_newline(b)
    IN  IF i = 0 THEN [lines |-> <<>>, buffer |-> b]
        ELSE LET rest == split_lines(SubSeq(b, i + 1, Len(b)))
             IN  [lines |-> <<SubSeq(b, 1, i - 1)>> \o rest.lines,
                  buffer |-> rest.buffer]

\* no p2p link: nothing is written or read
NoLink ==
    /\ peer_type = "none"
    /\ reader = "none"
    /\ wire = <<>>
    /\ buffer = <<>>
    /\ running = FALSE
    /\ sent = <<>>
    /\ log = <<>>
    /\ returned = <<>>

\* how a Manager method ends: it returns None or a peer, or it raises
ReturnNone == [none |-> TRUE]
ReturnPeer(p) == [peer |-> p]
Raise(e) == [raised |-> e]
AsReturn(result) == IF result # None THEN ReturnPeer(result) ELSE ReturnNone

\* no thread is inside a Manager method
NoCalls ==
    /\ mlock = None
    /\ mpc = [t \in Threads |-> "idle"]
    /\ mcall = [t \in Threads |-> [method |-> "none", arg |-> None]]
    /\ new_peer = [t \in Threads |-> None]
    /\ mret = [t \in Threads |-> ReturnNone]
    /\ lin = [peers |-> <<>>, active_clients |-> <<>>]
    /\ lin_ret = [t \in Threads |-> ReturnNone]

\* Manager.__init__
InitManager ==
    /\ peers = <<>>
    /\ active_clients = <<>>

\* Client.__init__ of every client, and the threads before their first call;
\* own tells which Client each thread drives
InitThreads(own) ==
    /\ host = [c \in Clients |-> InitialPeer]
    /\ connected = [c \in Clients |-> FALSE]
    /\ client_socket = [c \in Clients |-> None]
    /\ lock = [c \in Clients |-> None]
    /\ \E n \in 0..MaxRetries : max_retries = [c \in Clients |-> n]
    /\ owner = own
    /\ pc = [t \in Threads |-> IF owner[t] # None THEN "idle" ELSE "off"]
    /\ op = [t \in Threads |-> "none"]
    /\ site = [t \in Threads |-> "none"]
    /\ retries = [t \in Threads |-> 0]
    /\ ret = [t \in Threads |-> "NA"]
    /\ rc_result = [t \in Threads |-> "NA"]
    /\ attempts = [t \in Threads |-> 0]
    /\ requests = [t \in Threads |-> 0]
    /\ denials = [t \in Threads |-> 0]
    /\ notified = [t \in Threads |-> 0]
    /\ untried = [t \in Threads |-> None]
    /\ io = [t \in Threads |-> "none"]
    /\ sock_use = [c \in Clients |-> "none"]

\* one worker thread per Client
InitClients == InitThreads([t \in Threads |-> IF t = "t1" THEN "c1" ELSE None])

Init == InitManager /\ InitClients /\ NoLink /\ NoCalls

\* the clients no thread of the model drives
OtherClients == Clients \ {owner[t] : t \in Threads}

\* the application adds a peer to the pool
AddPeer(a) ==
    /\ Len(peers) < MaxPool
    /\ SetManager(add_peer(Manager, a))
    /\ UNCHANGED <<host, sockVars, lock, cfgVars, wireVars, callVars, pc, op,
                   site, retries, ret, rc_result, histVars, io>>

\* the application removes a peer from the pool
RemovePeer(a) ==
    /\ SetManager(remove_peer(Manager, a))
    /\ UNCHANGED <<host, sockVars, lock, cfgVars, wireVars, callVars, pc, op,
                   site, retries, ret, rc_result, histVars, io>>

\* another client asks the manager for a peer
GetNewPeer(c) ==
    /\ c \in OtherClients
    /\ SetManager(get_new_peer(Manager, c).self)
    /\ UNCHANGED <<host, sockVars, lock, cfgVars, wireVars, callVars, pc, op,
                   site, retries, ret, rc_result, histVars, io>>

\* another client reports its failure to the manager
HandleClientFailure(c) ==
    /\ c \in OtherClients
    /\ SetManager(handle_client_failure(Manager, c))
    /\ UNCHANGED <<host, sockVars, lock, cfgVars, wireVars, callVars, pc, op,
                   site, retries, ret, rc_result, histVars, io>>

\* what socket.recv can hand back: b'' when the peer closed, else a document
RecvData == {"", "doc"}

\* json.loads on what recv returned
json_loads(data) == IF data = "" THEN JSONDecodeError ELSE Message

\* what send returns: the bare `return` after a reconnect() that gave False,
\* and the end of the function body after the write or after its handler
send_result(outcome) ==
    CASE outcome = "permanent_failure" -> None
      [] outcome = "sent" -> None
      [] outcome = "send_error" -> None

\* what receive returns when it does not return json.loads(data): `return None`
\* after a reconnect() that gave False, and `return None` in the handler
receive_result(outcome) ==
    CASE outcome = "permanent_failure" -> None
      [] outcome = "recv_error" -> None

\* the application calls client.send(data)
CallSend(t) ==
    /\ pc[t] = "idle"
    /\ pc' = [pc EXCEPT ![t] = "send_check"]
    /\ op' = [op EXCEPT ![t] = "send"]
    /\ site' = [site EXCEPT ![t] = "none"]
    /\ ret' = [ret EXCEPT ![t] = "NA"]
    /\ rc_result' = [rc_result EXCEPT ![t] = "NA"]
    /\ io' = [io EXCEPT ![t] = "none"]
    /\ UNCHANGED <<mgrVars, host, sockVars, lock, cfgVars, wireVars, callVars,
                   retries, histVars>>

\* the application calls client.receive()
CallReceive(t) ==
    /\ pc[t] = "idle"
    /\ pc' = [pc EXCEPT ![t] = "recv_check"]
    /\ op' = [op EXCEPT ![t] = "receive"]
    /\ site' = [site EXCEPT ![t] = "none"]
    /\ ret' = [ret EXCEPT ![t] = "NA"]
    /\ rc_result' = [rc_result EXCEPT ![t] = "NA"]
    /\ io' = [io EXCEPT ![t] = "none"]
    /\ UNCHANGED <<mgrVars, host, sockVars, lock, cfgVars, wireVars, callVars,
                   retries, histVars>>

\* the application calls client.reconnect()
CallReconnect(t) ==
    /\ pc[t] = "idle"
    /\ EnterReconnect(t, "top")
    /\ op' = [op EXCEPT ![t] = "reconnect"]
    /\ ret' = [ret EXCEPT ![t] = "NA"]
    /\ io' = [io EXCEPT ![t] = "none"]
    /\ UNCHANGED <<mgrVars, host, sockVars, lock, cfgVars, wireVars, callVars>>

\* the application calls client.connect()
CallConnect(t) ==
    /\ pc[t] = "idle"
    /\ \E ok \in BOOLEAN : SetSock(owner[t], connect(Sock(owner[t]), ok))
    /\ op' = [op EXCEPT ![t] = "connect"]
    /\ ret' = [ret EXCEPT ![t] = None]
    /\ io' = [io EXCEPT ![t] = "none"]
    /\ UNCHANGED <<mgrVars, host, lock, cfgVars, wireVars, callVars, pc, site,
                   retries, rc_result, histVars>>

\* the application calls client.close()
CallClose(t) ==
    /\ pc[t] = "idle"
    /\ \E err \in BOOLEAN : SetSock(owner[t], close(Sock(owner[t]), err))
    /\ op' = [op EXCEPT ![t] = "close"]
    /\ ret' = [ret EXCEPT ![t] = None]
    /\ io' = [io EXCEPT ![t] = "none"]
    /\ UNCHANGED <<mgrVars, host, lock, cfgVars, wireVars, callVars, pc, site,
                   retries, rc_result, histVars>>

\* send, `if not self.connected: ... self.reconnect()`
send_check(t) ==
    /\ pc[t] = "send_check"
    /\ IF ~connected[owner[t]]
       THEN EnterReconnect(t, "pre")
       ELSE /\ pc' = [pc EXCEPT ![t] = "send_lock"]
            /\ UNCHANGED <<site, retries, rc_result, histVars>>
    /\ UNCHANGED <<mgrVars, host, sockVars, lock, cfgVars, wireVars, callVars,
                   op, ret, io>>

\* send, `with self.lock:`
send_lock(t) ==
    /\ pc[t] = "send_lock"
    /\ lock[owner[t]] = None
    /\ lock' = [lock EXCEPT ![owner[t]] = t]
    /\ pc' = [pc EXCEPT ![t] = "send_write"]
    /\ UNCHANGED <<mgrVars, host, sockVars, cfgVars, wireVars, callVars, op,
                   site, retries, ret, rc_result, histVars, io>>

\* send, `self.client_socket.sendall(...)`: it returns, or raises socket.error
\* and the handler runs reconnect(); the lock is released either way
send_write(t) ==
    /\ pc[t] = "send_write"
    /\ lock' = [lock EXCEPT ![owner[t]] = None]
    /\ \E ok \in BOOLEAN :
        /\ ok => connected[owner[t]] /\ client_socket[owner[t]] = "open"
        /\ IF ok
           THEN /\ io' = [io EXCEPT ![t] = "sent"]
                /\ Return(t, send_result("sent"))
                /\ UNCHANGED <<site, retries, rc_result, histVars>>
           ELSE /\ io' = [io EXCEPT ![t] = "send_error"]
                /\ EnterReconnect(t, "err")
                /\ UNCHANGED ret
    /\ UNCHANGED <<mgrVars, host, sockVars, cfgVars, wireVars, callVars, op>>

\* receive, `if not self.connected: ... self.reconnect()`
recv_check(t) ==
    /\ pc[t] = "recv_check"
    /\ IF ~connected[owner[t]]
       THEN EnterReconnect(t, "pre")
       ELSE /\ pc' = [pc EXCEPT ![t] = "recv_lock"]
            /\ UNCHANGED <<site, retries, rc_result, histVars>>
    /\ UNCHANGED <<mgrVars, host, sockVars, lock, cfgVars, wireVars, callVars,
                   op, ret, io>>

\* receive, `with self.lock:`
recv_lock(t) ==
    /\ pc[t] = "recv_lock"
    /\ lock[owner[t]] = None
    /\ lock' = [lock EXCEPT ![owner[t]] = t]
    /\ pc' = [pc EXCEPT ![t] = "recv_read"]
    /\ UNCHANGED <<mgrVars, host, sockVars, cfgVars, wireVars, callVars, op,
                   site, retries, ret, rc_result, histVars, io>>

\* receive, `data = self.client_socket.recv(1024)` then `return json.loads(data)`:
\* recv returns bytes (b'' when the peer closed), and json.loads' exception is
\* not caught; or recv raises socket.error and the handler runs reconnect()
recv_read(t) ==
    /\ pc[t] = "recv_read"
    /\ lock' = [lock EXCEPT ![owner[t]] = None]
    /\ \/ \E data \in RecvData :
            /\ connected[owner[t]] /\ client_socket[owner[t]] = "open"
            /\ io' = [io EXCEPT ![t] = IF data = "" THEN "eof" ELSE "data"]
            /\ Return(t, json_loads(data))
            /\ UNCHANGED <<site, retries, rc_result, histVars>>
       \/ /\ io' = [io EXCEPT ![t] = "recv_error"]
          /\ EnterReconnect(t, "err")
          /\ UNCHANGED ret
    /\ UNCHANGED <<mgrVars, host, sockVars, cfgVars, wireVars, callVars, op>>

\* rc_loop with `retries <= self.max_retries` for `retries < self.max_retries`
rc_loop_off_by_one(t) ==
    /\ pc[t] = "rc_loop"
    /\ IF retries[t] <= max_retries[owner[t]]
       THEN /\ lock[owner[t]] = None
            /\ lock' = [lock EXCEPT ![owner[t]] = t]
            /\ pc' = [pc EXCEPT ![t] = "rc_connect"]
       ELSE /\ pc' = [pc EXCEPT ![t] = "rc_exhausted"]
            /\ UNCHANGED lock
    /\ UNCHANGED <<mgrVars, host, sockVars, cfgVars, wireVars, callVars, op,
                   site, retries, ret, rc_result, histVars, io>>

\* reconnect, `while retries < self.max_retries:` and `with self.lock:`
rc_loop(t) ==
    /\ pc[t] = "rc_loop"
    /\ IF retries[t] < max_retries[owner[t]]
       THEN /\ lock[owner[t]] = None
            /\ lock' = [lock EXCEPT ![owner[t]] = t]
            /\ pc' = [pc EXCEPT ![t] = "rc_connect"]
       ELSE /\ pc' = [pc EXCEPT ![t] = "rc_exhausted"]
            /\ UNCHANGED lock
    /\ UNCHANGED <<mgrVars, host, sockVars, cfgVars, wireVars, callVars, op,
                   site, retries, ret, rc_result, histVars, io>>

\* rc_connect with the manager called inside `with self.lock`: the lock is
\* still held when the loop goes on to request_new_peer
rc_connect_keeps_lock(t) ==
    /\ pc[t] = "rc_connect"
    /\ \E ok, err \in BOOLEAN :
        SetSock(owner[t],
                connect(IF connected[owner[t]] THEN close(Sock(owner[t]), err)
                        ELSE Sock(owner[t]), ok))
    /\ attempts' = [attempts EXCEPT ![t] = @ + 1]
    /\ untried' = [untried EXCEPT
                     ![t] = IF host[owner[t]] = @ THEN None ELSE @]
    /\ pc' = [pc EXCEPT ![t] = "rc_check"]
    /\ UNCHANGED <<mgrVars, host, lock, cfgVars, wireVars, callVars, op, site,
                   retries, ret, rc_result, requests, denials, notified, io>>

\* reconnect, under the lock: `if self.connected: self.close()`, `self.connect()`
rc_connect(t) ==
    /\ pc[t] = "rc_connect"
    /\ \E ok, err \in BOOLEAN :
        SetSock(owner[t],
                connect(IF connected[owner[t]] THEN close(Sock(owner[t]), err)
                        ELSE Sock(owner[t]), ok))
    /\ lock' = [lock EXCEPT ![owner[t]] = None]
    /\ attempts' = [attempts EXCEPT ![t] = @ + 1]
    /\ untried' = [untried EXCEPT
                     ![t] = IF host[owner[t]] = @ THEN None ELSE @]
    /\ pc' = [pc EXCEPT ![t] = "rc_check"]
    /\ UNCHANGED <<mgrVars, host, cfgVars, wireVars, callVars, op, site,
                   retries, ret, rc_result, requests, denials, notified, io>>

\* rc_check asking for a new peer only once the retries against the current
\* target are used up (`if retries == self.max_retries: self.request_new_peer()`)
rc_check_request_when_exhausted(t) ==
    /\ pc[t] = "rc_check"
    /\ IF connected[owner[t]]
       THEN /\ rc_result' = [rc_result EXCEPT ![t] = "True"]
            /\ pc' = [pc EXCEPT ![t] = "rc_return"]
            /\ UNCHANGED retries
       ELSE /\ retries' = [retries EXCEPT ![t] = @ + 1]
            /\ pc' = [pc EXCEPT ![t] =
                        IF retries[t] + 1 = max_retries[owner[t]]
                        THEN "rc_request" ELSE "rc_loop"]
            /\ UNCHANGED rc_result
    /\ UNCHANGED <<mgrVars, host, sockVars, lock, cfgVars, wireVars, callVars,
                   op, site, ret, histVars, io>>

\* rc_check without its `retries += 1`
rc_check_no_increment(t) ==
    /\ pc[t] = "rc_check"
    /\ IF connected[owner[t]]
       THEN /\ rc_result' = [rc_result EXCEPT ![t] = "True"]
            /\ pc' = [pc EXCEPT ![t] = "rc_return"]
            /\ UNCHANGED retries
       ELSE /\ UNCHANGED retries
            /\ pc' = [pc EXCEPT ![t] = "rc_request"]
            /\ UNCHANGED rc_result
    /\ UNCHANGED <<mgrVars, host, sockVars, lock, cfgVars, wireVars, callVars,
                   op, site, ret, histVars, io>>

\* reconnect, `if self.connected: return True` else `retries += 1`
rc_check(t) ==
    /\ pc[t] = "rc_check"
    /\ IF connected[owner[t]]
       THEN /\ rc_result' = [rc_result EXCEPT ![t] = "True"]
            /\ pc' = [pc EXCEPT ![t] = "rc_return"]
            /\ UNCHANGED retries
       ELSE /\ retries' = [retries EXCEPT ![t] = @ + 1]
            /\ pc' = [pc EXCEPT ![t] = "rc_request"]
            /\ UNCHANGED rc_result
    /\ UNCHANGED <<mgrVars, host, sockVars, lock, cfgVars, wireVars, callVars,
                   op, site, ret, histVars, io>>

\* reconnect, `self.request_new_peer()` up to the test of what the manager gave
request_new_peer(t) ==
    /\ pc[t] = "rc_request"
    /\ LET r == get_new_peer(Manager, owner[t]) IN
        /\ SetManager(r.self)
        /\ requests' = [requests EXCEPT ![t] = @ + 1]
        /\ IF r.result # None
           THEN /\ host' = [host EXCEPT ![owner[t]] = r.result]
                /\ untried' = [untried EXCEPT ![t] = r.result]
                /\ pc' = [pc EXCEPT ![t] = "rc_loop"]
                /\ UNCHANGED denials
           ELSE /\ denials' = [denials EXCEPT ![t] = @ + 1]
                /\ pc' = [pc EXCEPT ![t] = "rnp_notify"]
                /\ UNCHANGED <<host, untried>>
    /\ UNCHANGED <<sockVars, lock, cfgVars, wireVars, callVars, op, site,
                   retries, ret, rc_result, attempts, notified, io>>

\* notify_manager_failure, `self.manager.handle_client_failure(self.client_id)`
notify_manager_failure(t, at, to) ==
    /\ pc[t] = at
    /\ SetManager(handle_client_failure(Manager, owner[t]))
    /\ notified' = [notified EXCEPT ![t] = @ + 1]
    /\ pc' = [pc EXCEPT ![t] = to]
    /\ UNCHANGED <<host, sockVars, lock, cfgVars, wireVars, callVars, op,
                   site, retries, ret, rc_result, attempts, requests, denials,
                   untried, io>>

\* request_new_peer, the manager gave None: `self.notify_manager_failure()`;
\* then back in reconnect's loop
rnp_notify(t) == notify_manager_failure(t, "rnp_notify", "rnp_close")

\* notify_manager_failure, `self.close()`, called from request_new_peer
rnp_close(t) ==
    /\ pc[t] = "rnp_close"
    /\ \E err \in BOOLEAN : SetSock(owner[t], close(Sock(owner[t]), err))
    /\ pc' = [pc EXCEPT ![t] = "rc_loop"]
    /\ UNCHANGED <<mgrVars, host, lock, cfgVars, wireVars, callVars, op, site,
                   retries, ret, rc_result, histVars, io>>

\* reconnect, after the loop: `self.notify_manager_failure()`
rc_exhausted(t) == notify_manager_failure(t, "rc_exhausted", "rc_fail_close")

\* notify_manager_failure, `self.close()`, called after the loop; `return False`
rc_fail_close(t) ==
    /\ pc[t] = "rc_fail_close"
    /\ \E err \in BOOLEAN : SetSock(owner[t], close(Sock(owner[t]), err))
    /\ rc_result' = [rc_result EXCEPT ![t] = "False"]
    /\ pc' = [pc EXCEPT ![t] = "rc_return"]
    /\ UNCHANGED <<mgrVars, host, lock, cfgVars, wireVars, callVars, op, site,
                   retries, ret, histVars, io>>

\* reconnect() is over: its locals are gone
LeaveReconnect(t) ==
    /\ site' = [site EXCEPT ![t] = "none"]
    /\ retries' = [retries EXCEPT ![t] = 0]
    /\ rc_result' = [rc_result EXCEPT ![t] = "NA"]
    /\ attempts' = [attempts EXCEPT ![t] = 0]
    /\ requests' = [requests EXCEPT ![t] = 0]
    /\ denials' = [denials EXCEPT ![t] = 0]
    /\ notified' = [notified EXCEPT ![t] = 0]
    /\ untried' = [untried EXCEPT ![t] = None]

\* reconnect has returned rc_result to its call site: the application, the
\* `if not self.reconnect(): return` of send/receive, or their except handler
rc_return(t) ==
    /\ pc[t] = "rc_return"
    /\ IF site[t] = "top" THEN Return(t, rc_result[t])
       ELSE IF site[t] = "pre" /\ rc_result[t] = "True"
       THEN /\ pc' = [pc EXCEPT ![t] =
                        IF op[t] = "send" THEN "send_lock" ELSE "recv_lock"]
            /\ UNCHANGED ret
       ELSE LET outcome == IF site[t] = "pre" THEN "permanent_failure"
                           ELSE io[t] IN
            Return(t, IF op[t] = "send" THEN send_result(outcome)
                      ELSE receive_result(outcome))
    /\ LeaveReconnect(t)
    /\ UNCHANGED <<mgrVars, host, sockVars, lock, cfgVars, wireVars, callVars,
                   op, io>>

Next ==
    \/ \E a \in Addrs : AddPeer(a)
    \/ \E a \in Addrs : RemovePeer(a)
    \/ \E c \in Clients : GetNewPeer(c)
    \/ \E c \in Clients : HandleClientFailure(c)
    \/ \E t \in Threads : CallSend(t)
    \/ \E t \in Threads : CallReceive(t)
    \/ \E t \in Threads : CallReconnect(t)
    \/ \E t \in Threads : CallConnect(t)
    \/ \E t \in Threads : CallClose(t)
    \/ \E t \in Threads : send_check(t)
    \/ \E t \in Threads : send_lock(t)
    \/ \E t \in Threads : send_write(t)
    \/ \E t \in Threads : recv_check(t)
    \/ \E t \in Threads : recv_lock(t)
    \/ \E t \in Threads : recv_read(t)
    \/ \E t \in Threads : rc_loop(t)
    \/ \E t \in Threads : rc_connect(t)
    \/ \E t \in Threads : rc_check(t)
    \/ \E t \in Threads : request_new_peer(t)
    \/ \E t \in Threads : rnp_notify(t)
    \/ \E t \in Threads : rnp_close(t)
    \/ \E t \in Threads : rc_exhausted(t)
    \/ \E t \in Threads : rc_fail_close(t)
    \/ \E t \in Threads : rc_return(t)

Spec == Init /\ [][Next]_vars

\* ---------------------------------------------------------------------
\* The pool is built by add_peer calls first; afterwards the clients only
\* allocate from it.
RECURSIVE PoolsBuiltBy(_)
\* the pools that at most n add_peer calls on a new Manager build
PoolsBuiltBy(n) ==
    IF n = 0 THEN {<<>>}
    ELSE LET prev == PoolsBuiltBy(n - 1) IN
         prev \cup {add_peer([peers |-> p, active_clients |-> <<>>], a).peers :
                        p \in prev, a \in Addrs}

InitAllocate ==
    /\ peers \in PoolsBuiltBy(MaxPool)
    /\ active_clients = <<>>
    /\ InitClients
    /\ NoLink
    /\ NoCalls

NextAllocate ==
    \/ \E c \in Clients : GetNewPeer(c)
    \/ \E t \in Threads : CallSend(t)
    \/ \E t \in Threads : CallReceive(t)
    \/ \E t \in Threads : CallReconnect(t)
    \/ \E t \in Threads : CallConnect(t)
    \/ \E t \in Threads : CallClose(t)
    \/ \E t \in Threads : send_check(t)
    \/ \E t \in Threads : send_lock(t)
    \/ \E t \in Threads : send_write(t)
    \/ \E t \in Threads : recv_check(t)
    \/ \E t \in Threads : recv_lock(t)
    \/ \E t \in Threads : recv_read(t)
    \/ \E t \in Threads : rc_loop(t)
    \/ \E t \in Threads : rc_connect(t)
    \/ \E t \in Threads : rc_check(t)
    \/ \E t \in Threads : request_new_peer(t)
    \/ \E t \in Threads : rnp_notify(t)
    \/ \E t \in Threads : rnp_close(t)
    \/ \E t \in Threads : rc_exhausted(t)
    \/ \E t \in Threads : rc_fail_close(t)
    \/ \E t \in Threads : rc_return(t)

SpecAllocate == InitAllocate /\ [][NextAllocate]_vars

\* ------------------------------------ two threads on the same Client
\* a reader and a writer thread of one Client
InitShared ==
    /\ peers \in PoolsBuiltBy(MaxSharedPool)
    /\ active_clients = <<>>
    /\ InitThreads([t \in Threads |-> "c1"])
    /\ max_retries["c1"] <= MaxSharedRetries
    /\ NoLink
    /\ NoCalls

NextShared ==
    \/ \E t \in Threads : CallSend(t)
    \/ \E t \in Threads : CallReceive(t)
    \/ \E t \in Threads : CallReconnect(t)
    \/ \E t \in Threads : CallConnect(t)
    \/ \E t \in Threads : CallClose(t)
    \/ \E t \in Threads : send_check(t)
    \/ \E t \in Threads : send_lock(t)
    \/ \E t \in Threads : send_write(t)
    \/ \E t \in Threads : recv_check(t)
    \/ \E t \in Threads : recv_lock(t)
    \/ \E t \in Threads : recv_read(t)
    \/ \E t \in Threads : rc_loop(t)
    \/ \E t \in Threads : rc_connect(t)
    \/ \E t \in Threads : rc_check(t)
    \/ \E t \in Threads : request_new_peer(t)
    \/ \E t \in Threads : rnp_notify(t)
    \/ \E t \in Threads : rnp_close(t)
    \/ \E t \in Threads : rc_exhausted(t)
    \/ \E t \in Threads : rc_fail_close(t)
    \/ \E t \in Threads : rc_return(t)

SpecShared == InitShared /\ [][NextShared]_vars

\* --------------------------- the Manager's methods, statement by statement
\* `with self.lock` without the lock
lock_not_taken(holder) == TRUE

\* `with self.lock` can be entered
lock_free(holder) == holder = None

ManagerMethods ==
    {"add_peer", "remove_peer", "get_new_peer", "handle_client_failure"}

\* the Manager after `method` ran alone on self, and what it returned
run_alone(self, method, arg) ==
    CASE method = "add_peer" ->
            [self |-> add_peer(self, arg), result |-> None]
      [] method = "remove_peer" ->
            [self |-> remove_peer(self, arg), result |-> None]
      [] method = "get_new_peer" -> get_new_peer(self, arg)
      [] method = "handle_client_failure" ->
            [self |-> handle_client_failure(self, arg), result |-> None]

InitCalls ==
    /\ InitManager
    /\ InitThreads([t \in Threads |-> IF t = "t1" THEN "c1" ELSE "c2"])
    /\ max_retries = [c \in Clients |-> 0]
    /\ NoLink
    /\ NoCalls

\* thread t calls a Manager method: a pool method with an address, a client
\* method with the id of its Client
m_call(t, method) ==
    /\ mpc[t] = "idle"
    /\ \E arg \in IF method \in {"add_peer", "remove_peer"}
                  THEN Addrs ELSE {owner[t]} :
        /\ method = "add_peer" => Len(peers) < MaxPool
        /\ mcall' = [mcall EXCEPT ![t] = [method |-> method, arg |-> arg]]
    /\ mpc' = [mpc EXCEPT ![t] = "with_lock"]
    /\ mret' = [mret EXCEPT ![t] = ReturnNone]
    /\ UNCHANGED <<mgrVars, clientVars, wireVars, mlock, new_peer, lin,
                   lin_ret>>

\* `with self.lock:` the thread takes the lock
m_with_lock(t) ==
    /\ mpc[t] = "with_lock"
    /\ lock_free(mlock)
    /\ mlock' = t
    /\ mpc' = [mpc EXCEPT ![t] = mcall[t].method]
    /\ lin' = run_alone(lin, mcall[t].method, mcall[t].arg).self
    /\ lin_ret' = [lin_ret EXCEPT
                     ![t] = AsReturn(run_alone(lin, mcall[t].method,
                                               mcall[t].arg).result)]
    /\ UNCHANGED <<mgrVars, clientVars, wireVars, mcall, new_peer, mret>>

\* add_peer: `self.peers.append((host_ip, host_port))`
m_add_peer(t) ==
    /\ mpc[t] = "add_peer"
    /\ peers' = Append(peers, mcall[t].arg)
    /\ mpc' = [mpc EXCEPT ![t] = "release"]
    /\ UNCHANGED <<active_clients, clientVars, wireVars, mlock, mcall,
                   new_peer, mret, lin, lin_ret>>

\* remove_peer: `if peer in self.peers:`
m_remove_peer(t) ==
    /\ mpc[t] = "remove_peer"
    /\ mpc' = [mpc EXCEPT ![t] = IF mcall[t].arg \in Range(peers)
                                 THEN "remove" ELSE "release"]
    /\ UNCHANGED <<mgrVars, clientVars, wireVars, mlock, mcall, new_peer,
                   mret, lin, lin_ret>>

\* remove_peer: `self.peers.remove(peer)`; ValueError if it is not there
m_remove(t) ==
    /\ mpc[t] = "remove"
    /\ IF mcall[t].arg \in Range(peers)
       THEN peers' = list_remove(peers, mcall[t].arg) /\ UNCHANGED mret
       ELSE mret' = [mret EXCEPT ![t] = Raise("ValueError")] /\ UNCHANGED peers
    /\ mpc' = [mpc EXCEPT ![t] = "release"]
    /\ UNCHANGED <<active_clients, clientVars, wireVars, mlock, mcall,
                   new_peer, lin, lin_ret>>

\* get_new_peer: `if self.peers:`, else `return None`
m_get_new_peer(t) ==
    /\ mpc[t] = "get_new_peer"
    /\ mpc' = [mpc EXCEPT ![t] = IF peers # <<>> THEN "pop" ELSE "release"]
    /\ UNCHANGED <<mgrVars, clientVars, wireVars, mlock, mcall, new_peer,
                   mret, lin, lin_ret>>

\* get_new_peer: `new_peer = self.peers.pop(0)`; IndexError on an empty list
m_pop(t) ==
    /\ mpc[t] = "pop"
    /\ IF peers # <<>>
       THEN /\ new_peer' = [new_peer EXCEPT ![t] = Head(peers)]
            /\ peers' = Tail(peers)
            /\ mpc' = [mpc EXCEPT ![t] = "assign"]
            /\ UNCHANGED mret
       ELSE /\ mret' = [mret EXCEPT ![t] = Raise("IndexError")]
            /\ mpc' = [mpc EXCEPT ![t] = "release"]
            /\ UNCHANGED <<peers, new_peer>>
    /\ UNCHANGED <<active_clients, clientVars, wireVars, mlock, mcall, lin,
                   lin_ret>>

\* get_new_peer: `self.active_clients[client_id] = new_peer`,
\* `return new_peer`
m_assign(t) ==
    /\ mpc[t] = "assign"
    /\ active_clients' = dict_set(active_clients, mcall[t].arg, new_peer[t])
    /\ mret' = [mret EXCEPT ![t] = ReturnPeer(new_peer[t])]
    /\ new_peer' = [new_peer EXCEPT ![t] = None]
    /\ mpc' = [mpc EXCEPT ![t] = "release"]
    /\ UNCHANGED <<peers, clientVars, wireVars, mlock, mcall, lin, lin_ret>>

\* handle_client_failure: `if client_id in self.active_clients:`
m_handle_client_failure(t) ==
    /\ mpc[t] = "handle_client_failure"
    /\ mpc' = [mpc EXCEPT ![t] = IF mcall[t].arg \in DOMAIN active_clients
                                 THEN "del" ELSE "release"]
    /\ UNCHANGED <<mgrVars, clientVars, wireVars, mlock, mcall, new_peer,
                   mret, lin, lin_ret>>

\* handle_client_failure: `del self.active_clients[client_id]`; KeyError if
\* the key is not there
m_del(t) ==
    /\ mpc[t] = "del"
    /\ IF mcall[t].arg \in DOMAIN active_clients
       THEN /\ active_clients' = dict_del(active_clients, mcall[t].arg)
            /\ UNCHANGED mret
       ELSE /\ mret' = [mret EXCEPT ![t] = Raise("KeyError")]
            /\ UNCHANGED active_clients
    /\ mpc' = [mpc EXCEPT ![t] = "release"]
    /\ UNCHANGED <<peers, clientVars, wireVars, mlock, mcall, new_peer, lin,
                   lin_ret>>

\* the end of the `with` block: the lock is released, the method returns
m_release(t) ==
    /\ mpc[t] = "release"
    /\ mlock' = IF mlock = t THEN None ELSE mlock
    /\ mpc' = [mpc EXCEPT ![t] = "idle"]
    /\ UNCHANGED <<mgrVars, clientVars, wireVars, mcall, new_peer, mret, lin,
                   lin_ret>>

NextCalls ==
    \/ \E t \in Threads : \E method \in ManagerMethods : m_call(t, method)
    \/ \E t \in Threads : m_with_lock(t)
    \/ \E t \in Threads : m_add_peer(t)
    \/ \E t \in Threads : m_remove_peer(t)
    \/ \E t \in Threads : m_remove(t)
    \/ \E t \in Threads : m_get_new_peer(t)
    \/ \E t \in Threads : m_pop(t)
    \/ \E t \in Threads : m_assign(t)
    \/ \E t \in Threads : m_handle_client_failure(t)
    \/ \E t \in Threads : m_del(t)
    \/ \E t \in Threads : m_release(t)

SpecCalls == InitCalls /\ [][NextCalls]_vars

\* ------------------------------------------- the p2p link on its own
\* the ways a link is read: by a p2p peer's handle_peer_connection thread
\* (start_server, connect_to_peer) or by calls of Client.receive
Links ==
    {[reader |-> "handle_peer_connection", peer_type |-> "Server"],
     [reader |-> "handle_peer_connection", peer_type |-> "Client"],
     [reader |-> "receive", peer_type |-> "none"]}

InitLink ==
    /\ InitManager
    /\ InitClients
    /\ max_retries = [c \in Clients |-> 0]
    /\ \E l \in Links : reader = l.reader /\ peer_type = l.peer_type
    /\ wire = <<>>
    /\ buffer = <<>>
    /\ running = TRUE
    /\ sent = <<>>
    /\ log = <<>>
    /\ returned = <<>>
    /\ NoCalls

\* the sender writes `text` for the message m
Write(m, text) ==
    /\ running
    /\ Len(sent) < MaxSent
    /\ wire' = wire \o text
    /\ sent' = Append(sent, [msg |-> m, text |-> text])
    /\ UNCHANGED <<mgrVars, clientVars, callVars, peer_type, reader, buffer,
                   running, log, returned>>

\* the sender calls send_hello_world(peer_socket, 1)
send_hello_world == Write("hello1", json_dumps("hello1") \o <<NL>>)

\* the sender calls Client.send(data) on a connected Client
ClientSend(d) == Write(d, json_dumps(d))

\* the sender writes a line of its own: a JSON object, or no JSON at all
PeerWrite(m) ==
    Write(m, (IF m \in DocNames THEN json_dumps(m) ELSE <<m>>) \o <<NL>>)

Min(a, b) == IF a < b THEN a ELSE b

\* handle_peer_connection: one turn of the loop in which recv returns data
handle_peer_connection ==
    /\ reader = "handle_peer_connection"
    /\ running
    /\ wire # <<>>
    /\ \E k \in 1..Min(Len(wire), RecvSize) :
        LET data == SubSeq(wire, 1, k)
            split == split_lines(buffer \o data)
        IN  /\ wire' = SubSeq(wire, k + 1, Len(wire))
            /\ buffer' = split.buffer
            /\ log' = log \o
                  [i \in DOMAIN split.lines |->
                      [line |-> split.lines[i],
                       did |-> handle_json_rpc(split.lines[i], peer_type)]]
    /\ UNCHANGED <<mgrVars, clientVars, callVars, peer_type, reader, running,
                   sent, returned>>

\* handle_peer_connection: recv returns '' (the sender is gone), `break`
hpc_break ==
    /\ reader = "handle_peer_connection"
    /\ running
    /\ wire = <<>>
    /\ running' = FALSE
    /\ UNCHANGED <<mgrVars, clientVars, callVars, peer_type, reader, wire,
                   buffer, sent, log, returned>>

\* Client.receive on a connected Client: recv and json.loads
receive ==
    /\ reader = "receive"
    /\ wire # <<>>
    /\ \E k \in 1..Min(Len(wire), RecvSize) :
        LET data == SubSeq(wire, 1, k)
        IN  /\ wire' = SubSeq(wire, k + 1, Len(wire))
            /\ returned' = Append(returned,
                    IF is_json(data)
                    THEN [data |-> data, value |-> json_loads_text(data)]
                    ELSE [data |-> data, raised |-> JSONDecodeError])
    /\ UNCHANGED <<mgrVars, clientVars, callVars, peer_type, reader, buffer,
                   running, sent, log>>

NextLink ==
    \/ send_hello_world
    \/ \E d \in DocNames : ClientSend(d)
    \/ \E m \in DocNames \cup {Garbage} : PeerWrite(m)
    \/ handle_peer_connection
    \/ hpc_break
    \/ receive

SpecLink == InitLink /\ [][NextLink]_vars

\* ------------------------------------------------------------- claims
\* thread t's reconnect() has just returned False
ReturnsFalse(t) == pc[t] = "rc_return" /\ rc_result[t] = "False"

\* the number of times x occurs in the list s
Count(s, x) == Cardinality({i \in DOMAIN s : s[i] = x})

\* C1: no two distinct client ids are mapped to the same peer address in
\* active_clients, whatever pool add_peer built and however the clients
\* allocate from it.
ExclusiveAllocation ==
    \A c \in DOMAIN active_clients : \A d \in DOMAIN active_clients :
        c # d => active_clients[c] # active_clients[d]

ExhaustionTerminal ==
    [][\A t \in Threads :
          denials[t] > 0 =>
              /\ attempts'[t] <= attempts[t]
              /\ requests'[t] <= requests[t]
              /\ pc'[t] = "rc_return" => rc_result'[t] = "False"]_vars

\* C5: when reconnect() returns False the manager has been notified and
\* active_clients has no entry for the client.
FailureReleasesClient ==
    \A t \in Threads :
        ReturnsFalse(t) =>
            /\ notified[t] >= 1
            /\ owner[t] \notin DOMAIN active_clients

\* C5 witness: reconnect() returns False for a client that was granted a peer
\* by each of its requests, so that its entry was there to be removed.
FailureReleasesWitness ==
    \E t \in Threads :
        /\ ReturnsFalse(t) /\ requests[t] >= 1 /\ denials[t] = 0
        /\ max_retries[owner[t]] = 3

\* C6: no peer address is in the pool more than once.
NoDuplicatePeers ==
    \A i \in DOMAIN peers : \A j \in DOMAIN peers :
        i # j => peers[i] # peers[j]

\* the pool and the table after get_new_peer(c), as C7 states them
AllocateEffect(c) ==
    IF peers # <<>>
    THEN /\ peers' = Tail(peers)
         /\ DOMAIN active_clients' = DOMAIN active_clients \cup {c}
         /\ active_clients'[c] = Head(peers)
         /\ \A d \in DOMAIN active_clients \ {c} :
               active_clients'[d] = active_clients[d]
    ELSE /\ peers' = peers
         /\ active_clients' = active_clients

\* C7: get_new_peer removes and returns the head of a non-empty pool and maps
\* the client to it, leaving the other clients' entries alone; on an empty pool
\* it returns None and changes neither the pool nor the table.
AllocateFIFO ==
    [][/\ \A t \in Threads :
            pc[t] = "rc_request" /\ pc'[t] # "rc_request" =>
                /\ AllocateEffect(owner[t])
                /\ IF peers # <<>>
                   THEN host'[owner[t]] = Head(peers) /\ pc'[t] = "rc_loop"
                   ELSE host' = host /\ pc'[t] = "rnp_notify"
       /\ \A c \in Clients : GetNewPeer(c) => AllocateEffect(c)]_vars

\* C7 witness (scenario A): c1 has just allocated from the pool
\* [(A,1), (B,2)].
AllocateWitness ==
    /\ pc["t1"] = "rc_loop" /\ requests["t1"] = 1
    /\ host["c1"] = <<"A", 1>>
    /\ active_clients = ("c1" :> <<"A", 1>>)
    /\ peers = << <<"B", 2>> >>

\* C8: add_peer grows the pool by one for an address not in it and by zero
\* for an address already in it, a successful get_new_peer shrinks it by one,
\* and get_new_peer followed by add_peer of the returned address leaves that
\* address in the pool exactly once.
PoolConservation ==
    /\ [][/\ \A a \in Addrs :
               AddPeer(a) =>
                   Len(peers') = Len(peers) + (IF a \in Range(peers) THEN 0 ELSE 1)
          /\ \A t \in Threads :
               pc[t] = "rc_request" /\ pc'[t] = "rc_loop" =>
                   Len(peers') = Len(peers) - 1]_vars
    /\ [](\A c \in Clients :
             LET r == get_new_peer(Manager, c) IN
             r.result # None =>
                 Count(add_peer(r.self, r.result).peers, r.result) = 1)

\* C9 (for a client whose max_retries allows an attempt at all): a send that
\* found the client disconnected and whose reconnect() gave False wrote
\* nothing to the socket and returns something other than what a send that
\* wrote its data returns.
SendReportsPermanentFailure ==
    \A t \in Threads :
        /\ pc[t] = "idle" /\ op[t] = "send" /\ io[t] = "none"
        /\ max_retries[owner[t]] >= 1
        => ret[t] # send_result("sent")

\* C10: receive returns None exactly when the peer closed the connection
\* (recv gave zero bytes): never after a read error or a permanent failure.
ReceiveNoneOnlyOnClose ==
    \A t \in Threads :
        pc[t] = "idle" /\ op[t] = "receive" =>
            (ret[t] = None <=> io[t] = "eof")

\* C11: close() leaves the connection disconnected whether or not the socket's
\* own close raised, and a second close() changes nothing: from every state a
\* client can be in, close then close gives the state one close gives; a
\* close() call returns normally (None) with the client disconnected.
CloseIdempotent ==
    /\ \A c \in Clients : \A e1, e2 \in BOOLEAN :
        /\ close(Sock(c), e1).connected = FALSE
        /\ close(close(Sock(c), e1), e2).connected = close(Sock(c), e1).connected
        /\ close(close(Sock(c), e1), e2).client_socket
                = close(Sock(c), e1).client_socket
    /\ \A t \in Threads :
        pc[t] = "idle" /\ op[t] = "close"
            => ret[t] = None /\ ~connected[owner[t]]

\* close() was called on a connected client, and again on the closed one
CloseWitness ==
    \E t \in Threads :
        /\ pc[t] = "idle" /\ op[t] = "close"
        /\ client_socket[owner[t]] = "closed"
        /\ sock_use[owner[t]] = "closed_again"

\* the messages a link's sender has written are all JSON objects
SentObjects == \A i \in DOMAIN sent : sent[i].msg \in DocNames

\* what json.loads made of a text
Decoded(text) ==
    IF is_json(text) THEN [value |-> json_loads_text(text)]
    ELSE [raised |-> JSONDecodeError]

\* the messages the link's receiver has decoded, in order
DecodedSoFar ==
    IF reader = "receive"
    THEN [i \in DOMAIN returned |-> Decoded(returned[i].data)]
    ELSE [i \in DOMAIN log |-> Decoded(log[i].line)]

\* C12: framing round trip: once all the bytes of the messages a sender wrote
\* (with Client.send, send_hello_world or a line of its own) have been read,
\* however the reads cut them, the receiver (handle_peer_connection or
\* Client.receive) has decoded exactly those messages, equal in all fields.
FramingRoundTrip ==
    wire = <<>> /\ SentObjects
        => DecodedSoFar = [i \in DOMAIN sent |-> [value |-> Docs[sent[i].msg]]]

\* the message kinds of the protocol: a request has jsonrpc, method, params
\* and an integer or string id; a response has jsonrpc, id and a result or
\* an error
IsRequest(message) ==
    /\ {"jsonrpc", "method", "params", "id"} \subseteq DOMAIN message
    /\ message.id.type \in {"int", "str"}
IsResponse(message) ==
    /\ {"jsonrpc", "id"} \subseteq DOMAIN message
    /\ "result" \in DOMAIN message \/ "error" \in DOMAIN message

\* the line is no JSON, or JSON of neither kind
InvalidLine(line) ==
    \/ ~is_json(line)
    \/ ~IsRequest(json_loads_text(line)) /\ ~IsResponse(json_loads_text(line))

\* C13: for every line handle_peer_connection handed to handle_json_rpc that
\* fails to parse or is neither a request nor a response, the receiver wrote
\* exactly one message, the Invalid-Request error (-32600, id null), and its
\* loop is still running as long as bytes are left to read.
InvalidLineAnswered ==
    /\ \A i \in DOMAIN log :
        InvalidLine(log[i].line) => log[i].did.written = <<error_response>>
    /\ wire # <<>> /\ reader = "handle_peer_connection" => running

\* the responses among the messages written for one line
Responses(written) ==
    {i \in DOMAIN written :
        "result" \in DOMAIN written[i] \/ "error" \in DOMAIN written[i]}

\* the response the protocol asks for to the request `message`
ExpectedResponse(message) ==
    IF message.method = "echo"
    THEN [jsonrpc |-> "2.0", id |-> message.id, result |-> message.params]
    ELSE [jsonrpc |-> "2.0", id |-> message.id,
          error |-> [code |-> MethodNotFound, message |-> "Method not found"]]

\* C14: for every well-formed request handed to handle_json_rpc the receiver
\* wrote exactly one response: it has the request's id, result = params for
\* echo and error -32601 for another method, and it is no Invalid-Request.
RequestAnsweredOnce ==
    \A i \in DOMAIN log :
        is_json(log[i].line) /\ IsRequest(json_loads_text(log[i].line))
            => LET written == log[i].did.written
               IN  /\ Cardinality(Responses(written)) = 1
                   /\ \A j \in Responses(written) :
                        written[j] = ExpectedResponse(json_loads_text(log[i].line))

\* the ids of the requests the receiving side has written before it handled
\* its i-th line: start_client's send_hello_world(client_socket, 1) and the
\* follow-ups of handle_json_rpc
Issued(i) ==
    (IF peer_type = "Client" THEN {IntId(1)} ELSE {})
    \cup UNION {{log[j].did.written[k].id :
                    k \in {n \in DOMAIN log[j].did.written :
                             "method" \in DOMAIN log[j].did.written[n]}} :
                j \in 1..(i - 1)}
\* of those, the ids a response was already accepted for
Answered(i) ==
    {json_loads_text(log[j].line).id :
        j \in {n \in 1..(i - 1) : /\ log[n].did.branch = "response"
                                  /\ "id" \in DOMAIN json_loads_text(log[n].line)}}

\* C15: handle_json_rpc takes a line as a response (and goes on from it) only
\* if the line's id is the id of a request this side wrote earlier and that
\* no response was accepted for yet; any other response is answered as an
\* error.
ResponseMatchesRequest ==
    \A i \in DOMAIN log :
        log[i].did.branch = "response"
            => /\ "id" \in DOMAIN json_loads_text(log[i].line)
               /\ json_loads_text(log[i].line).id \in Issued(i) \ Answered(i)

RECURSIVE Concat(_)
\* the texts of a sequence of written messages, one after the other
Concat(ms) == IF ms = <<>> THEN <<>> ELSE Head(ms).text \o Concat(Tail(ms))
\* the bytes the receiver has read so far
Arrived == SubSeq(Concat(sent), 1, Len(Concat(sent)) - Len(wire))

\* the texts the receiver has handed on (to handle_json_rpc, or to json.loads
\* in Client.receive), and the bytes it keeps for its next read
Handed ==
    IF reader = "receive" THEN [i \in DOMAIN returned |-> returned[i].data]
    ELSE [i \in DOMAIN log |-> log[i].line]
Kept == IF reader = "receive" THEN <<>> ELSE buffer

\* C19: however the byte stream is cut into reads, the receiver has handed on
\* exactly the complete lines of the bytes read so far, each once and in
\* order, and keeps the incomplete tail after the last delimiter.
AccumulatorKeepsLines ==
    LET whole == split_lines(Arrived)
    IN  /\ [i \in DOMAIN Handed |-> strip(Handed[i])] = whole.lines
        /\ Kept = whole.buffer

\* C16: every socket a Client opens is closed exactly once: connect never
\* replaces a socket that was not closed, close never closes a socket that
\* was closed before, and a reconnect() that gives up leaves no open socket.
SocketClosedOnce ==
    /\ \A c \in Clients : sock_use[c] \notin {"replaced_unclosed", "closed_again"}
    /\ \A t \in Threads : ReturnsFalse(t) => client_socket[owner[t]] # "open"

\* thread t is inside a socket operation of its Client: close and connect
\* in reconnect, sendall, recv, or the close of notify_manager_failure on a
\* Client that has a socket
InSocketOp(t) ==
    \/ pc[t] \in {"rc_connect", "send_write", "recv_read"}
    \/ /\ pc[t] \in {"rnp_close", "rc_fail_close"}
       /\ client_socket[owner[t]] # None

\* C17: no two threads are inside a socket operation of the same Client at
\* the same time.
SocketExclusive ==
    \A t1, t2 \in Threads :
        t1 # t2 /\ owner[t1] # None /\ owner[t1] = owner[t2]
            => ~(InSocketOp(t1) /\ InSocketOp(t2))

\* C18: under every interleaving of add_peer, remove_peer, get_new_peer and
\* handle_client_failure calls of several threads each call takes effect as
\* one step: whenever no call is under way the pool and the table are those
\* the same calls give run one after the other (in the order in which they
\* took the lock), every finished call returned what it returns in that
\* order, and a peer taken from the pool went to one caller only.
ManagerAtomic ==
    /\ mlock = None => Manager = lin
    /\ \A t \in Threads : mpc[t] = "idle" => mret[t] = lin_ret[t]
    /\ \A t1, t2 \in Threads :
        mpc[t1] = "assign" /\ mpc[t2] = "assign" => t1 = t2

\* two threads called get_new_peer while one peer was in the pool: one got
\* the peer, the other None
ManagerAtomicWitness ==
    \E t1, t2 \in Threads :
        /\ mpc[t1] = "idle" /\ mcall[t1].method = "get_new_peer"
        /\ mpc[t2] = "idle" /\ mcall[t2].method = "get_new_peer"
        /\ "peer" \in DOMAIN mret[t1]
        /\ mret[t2] = ReturnNone
        /\ active_clients = (owner[t1] :> mret[t1].peer)

\* thread t is at a call of a Manager method, which takes the Manager's lock
AtManagerCall(t) == pc[t] \in {"rc_request", "rnp_notify", "rc_exhausted"}
\* thread t waits for the lock of its Client
AtClientLock(t) ==
    \/ pc[t] \in {"send_lock", "recv_lock"}
    \/ pc[t] = "rc_loop" /\ retries[t] < max_retries[owner[t]]
\* thread t can take its next step inside the call it is in
CanStep(t) ==
    ENABLED (\/ send_check(t) \/ send_lock(t) \/ send_write(t)
             \/ recv_check(t) \/ recv_lock(t) \/ recv_read(t)
             \/ rc_loop(t) \/ rc_connect(t) \/ rc_check(t)
             \/ request_new_peer(t) \/ rnp_notify(t) \/ rnp_close(t)
             \/ rc_exhausted(t) \/ rc_fail_close(t) \/ rc_return(t))

\* C20: a thread calls the Manager only while it holds no Client lock, a
\* Client lock is held only across one socket operation, and so no thread
\* inside send, receive or reconnect is ever stuck: it can step, or it waits
\* for a Client lock whose holder can step.
NoLockNesting ==
    /\ \A t \in Threads : \A c \in Clients : AtManagerCall(t) => lock[c] # t
    /\ \A c \in Clients :
        lock[c] # None
            => /\ owner[lock[c]] = c
               /\ pc[lock[c]] \in {"rc_connect", "send_write", "recv_read"}
    /\ \A t \in Threads :
        pc[t] \notin {"idle", "off"}
            => \/ CanStep(t)
               \/ /\ AtClientLock(t)
                  /\ lock[owner[t]] \notin {None, t}
                  /\ CanStep(lock[owner[t]])

\* one thread is at a call of the Manager while the other thread of the same
\* Client holds the Client's lock inside a socket operation
NoLockNestingWitness ==
    \E t1, t2 \in Threads :
        /\ t1 # t2 /\ owner[t1] = owner[t2]
        /\ AtManagerCall(t1)
        /\ lock[owner[t1]] = t2

\* C21: when a reconnect() is about to return, every peer it got from
\* get_new_peer (and so took out of the pool) has been the target of one of
\* its connect attempts.
GrantedPeerTried ==
    \A t \in Threads : pc[t] = "rc_return" => untried[t] = None

\* thread t is inside reconnect()
InReconnect(t) ==
    pc[t] \in {"rc_loop", "rc_connect", "rc_check", "rc_request",
               "rnp_notify", "rnp_close", "rc_exhausted", "rc_fail_close",
               "rc_return"}

\* how far the statement the thread is at is from the end of its iteration
Rank(t) ==
    CASE pc[t] = "rc_request" -> 6
      [] pc[t] = "rnp_notify" -> 5
      [] pc[t] = "rnp_close" -> 4
      [] pc[t] = "rc_loop" -> 3
      [] pc[t] \in {"rc_connect", "rc_exhausted"} -> 2
      [] pc[t] \in {"rc_check", "rc_fail_close"} -> 1
      [] pc[t] = "rc_return" -> 0
\* an upper bound of the steps the thread's reconnect() has left
StepsLeft(t) == (max_retries[owner[t]] - retries[t]) * 7 + Rank(t)

\* C22: every reconnect() terminates with True or False after at most
\* max_retries connect attempts and at most max_retries requests for a new
\* peer, whatever the other threads do to the pool: inside reconnect() the
\* thread can always take its next step, each of its steps brings it nearer
\* to the return (StepsLeft decreases and is never negative), and the two
\* counts never exceed max_retries.
ReconnectTerminates ==
    /\ [](\A t \in Threads :
            InReconnect(t)
                => /\ attempts[t] <= max_retries[owner[t]]
                   /\ requests[t] <= max_retries[owner[t]]
                   /\ StepsLeft(t) >= 0
                   /\ CanStep(t)
                   /\ pc[t] = "rc_return" => rc_result[t] \in {"True", "False"})
    /\ [][\A t \in Threads :
            InReconnect(t) /\ InReconnect(t)' /\ pc'[t] # pc[t]
                => StepsLeft(t)' < StepsLeft(t)]_vars

\* a reconnect() ends after max_retries failed attempts although every one
\* of its requests was granted a peer
ReconnectTerminatesWitness ==
    \E t \in Threads :
        /\ pc[t] = "rc_return" /\ rc_result[t] = "False"
        /\ max_retries[owner[t]] >= 2
        /\ attempts[t] = max_retries[owner[t]]
        /\ requests[t] = max_retries[owner[t]]
        /\ denials[t] = 0
====
